---------------------------- MODULE Spec2Model ----------------------------
(***************************************************************************)
(* fibhatchery: the memoized Fibonacci service of app/app.py (fib behind   *)
(* functools.lru_cache, the Flask route /fib/<int:n>) and the stack        *)
(* lifecycle of fibfactory.py (create_env, destroy_env).                   *)
(*                                                                         *)
(* A process is a pair <<run, thread>>: a run is one lifetime of the       *)
(* service process and owns one lru_cache; the threads of a run share it.  *)
(***************************************************************************)
EXTENDS Integers, Sequences, FiniteSets, TLC

\* ------------------------------------------------------------------ bounds
\* Depth of Python frames a thread may stack before the interpreter raises
\* RecursionError (sys.getrecursionlimit(), 1000 by default), scaled down.
RecursionLimit == 4
\* Largest index a caller asks for; larger than RecursionLimit, as the route
\* accepts every unsigned integer.
MaxN == 6
\* Most negative index a caller passes.
MaxNeg == 2
\* The range 0..50 of the specification's first testable property, scaled
\* with RecursionLimit (50 < 1000).
ClaimN == 3

Inputs == (0 - MaxNeg)..MaxN

\* ------------------------------------------------------- reference values
RECURSIVE Fib(_)
Fib(n) == IF n = 0 THEN 0 ELSE IF n = 1 THEN 1 ELSE Fib(n - 1) + Fib(n - 2)

\* --------------------------------------------------------------- processes
SeqProcs == {<<1, 1>>}
ConcProcs == {<<1, 1>>, <<1, 2>>}
RunProcs == {<<1, 1>>, <<2, 1>>}
Procs == SeqProcs \cup ConcProcs \cup RunProcs
Runs == {p[1] : p \in Procs}
RunOf(p) == p[1]

VARIABLES
  cache,      \* cache[r]: the lru_cache dictionary of run r, key |-> value
  stack,      \* stack[p]: the frames of fib that thread p has open
  call,       \* call[p]: the top-level call of p (a request or a direct call)
  computed,   \* computed[r][k]: how often line 11 finished for index k in run r
  workspace,  \* the stacks the Pulumi workspace holds (by env id)
  resources,  \* resources[e]: cloud resources of the stack of env e
  op          \* the last fibfactory command and how it went

vars == <<cache, stack, call, computed, workspace, resources, op>>
fibVars == <<cache, stack, call, computed>>
envVars == <<workspace, resources, op>>

\* ------------------------------------------------------ the URL converter
\* A path segment after /fib/ that spells an integer: an optional minus sign
\* and its digits.
Segments == [neg : {FALSE}, mag : 0..MaxN] \cup [neg : {TRUE}, mag : 1..MaxNeg]
SegInt(seg) == IF seg.neg THEN 0 - seg.mag ELSE seg.mag
\* <int:n> is werkzeug's IntegerConverter with signed=False: it matches
\* digits only, so a segment with a minus sign matches no route.
IntConverterMatches(seg) == ~seg.neg
IntConverterValue(seg) == seg.mag

\* ----------------------------------------------------------------- records
Frame(n) == [n |-> n, pc |-> "lookup", a |-> 0, r |-> 0]

IdleCall ==
  [via |-> "none", arg |-> 0, phase |-> "idle", kind |-> "none", val |-> 0,
   status |-> 0, payN |-> 0, payFib |-> 0, calls |-> 0, misses |-> 0,
   writes |-> 0, prevKind |-> "none", prevVal |-> 0, joined |-> FALSE]

\* The record of a new top-level call about index n. prevKind/prevVal keep
\* how the call right before it ended when that call ran the evaluator on
\* the same index; joined tells that the call started while another thread
\* of the run was evaluating the same, uncached index.
NewCall(old, via, n, joined) ==
  LET again == old.phase = "done" /\ old.calls > 0 /\ old.arg = n
  IN [IdleCall EXCEPT !.via = via, !.arg = n, !.phase = "running",
                      !.joined = joined,
                      !.prevKind = IF again THEN old.kind ELSE "none",
                      !.prevVal = IF again THEN old.val ELSE 0]

\* jsonify({"n": n, "fib": result}), 200 for a request; the plain return
\* value for a direct call.
FinishValue(c, v) ==
  IF c.via = "route"
  THEN [c EXCEPT !.phase = "done", !.kind = "value", !.val = v,
                 !.status = 200, !.payN = c.arg, !.payFib = v]
  ELSE [c EXCEPT !.phase = "done", !.kind = "value", !.val = v]

\* An exception leaving fib: Flask answers 500 to a request, a direct caller
\* sees the exception.
FinishError(c, kind) ==
  IF c.via = "route"
  THEN [c EXCEPT !.phase = "done", !.kind = kind, !.status = 500]
  ELSE [c EXCEPT !.phase = "done", !.kind = kind]

Top(p) == stack[p][Len(stack[p])]
Running(p) == call[p].phase = "running" /\ stack[p] # <<>>
AtPc(p, pc) == Running(p) /\ Top(p).pc = pc

\* ---------------------------------------------------------------- returns
\* The top frame of p returns v to its caller; c is p's call record after
\* the returning step's own bookkeeping.
Return(p, v, c) ==
  LET rest == SubSeq(stack[p], 1, Len(stack[p]) - 1)
  IN IF rest = <<>>
     THEN /\ stack' = [stack EXCEPT ![p] = <<>>]
          /\ call' = [call EXCEPT ![p] = FinishValue(c, v)]
          /\ computed' = computed
     ELSE LET f == rest[Len(rest)]
          IN IF f.pc = "wait1"
             THEN /\ stack' = [stack EXCEPT ![p] =
                       [rest EXCEPT ![Len(rest)] = [f EXCEPT !.pc = "call2", !.a = v]]]
                  /\ call' = [call EXCEPT ![p] = c]
                  /\ computed' = computed
             ELSE /\ stack' = [stack EXCEPT ![p] =
                       [rest EXCEPT ![Len(rest)] = [f EXCEPT !.pc = "store", !.r = f.a + v]]]
                  /\ call' = [call EXCEPT ![p] = c]
                  /\ computed' = [computed EXCEPT ![RunOf(p)][f.n] = @ + 1]

\* Another thread of p's run is evaluating n, and n is not cached.
Joins(p, n) ==
  /\ n \notin DOMAIN cache[RunOf(p)]
  /\ \E q \in Procs \ {p} :
       RunOf(q) = RunOf(p) /\ call[q].phase = "running" /\ call[q].arg = n

\* ------------------------------------------------------------- top level
\* GET /fib/<seg>: the route and get_fib up to its call of fib.
Request(p, seg) ==
  /\ call[p].phase # "running"
  /\ LET c == NewCall(call[p], "route", SegInt(seg), Joins(p, SegInt(seg)))
     IN IF ~IntConverterMatches(seg)
        THEN /\ call' = [call EXCEPT ![p] = [c EXCEPT !.phase = "done", !.status = 404]]
             /\ stack' = stack
        ELSE LET n == IntConverterValue(seg)
             IN IF n < 0
                THEN /\ call' = [call EXCEPT ![p] =
                          [c EXCEPT !.phase = "done", !.status = 400,
                                    !.kind = "InvalidArgument"]]
                     /\ stack' = stack
                ELSE /\ call' = [call EXCEPT ![p] = [c EXCEPT !.calls = 1]]
                     /\ stack' = [stack EXCEPT ![p] = <<Frame(n)>>]
  /\ UNCHANGED <<cache, computed, envVars>>

\* fib(n) called directly, without the route's guard.
DirectCall(p, n) ==
  /\ call[p].phase # "running"
  /\ call' = [call EXCEPT ![p] = [NewCall(call[p], "direct", n, Joins(p, n)) EXCEPT !.calls = 1]]
  /\ stack' = [stack EXCEPT ![p] = <<Frame(n)>>]
  /\ UNCHANGED <<cache, computed, envVars>>

\* ------------------------------------------------- the lru_cache wrapper
\* The wrapper finds the key: the cached value is returned.
LookupHit(p) ==
  /\ AtPc(p, "lookup")
  /\ Top(p).n \in DOMAIN cache[RunOf(p)]
  /\ Return(p, cache[RunOf(p)][Top(p).n], call[p])
  /\ UNCHANGED <<cache, envVars>>

\* The wrapper misses and calls fib's body, which takes one more frame.
LookupMiss(p) ==
  /\ AtPc(p, "lookup")
  /\ Top(p).n \notin DOMAIN cache[RunOf(p)]
  /\ Len(stack[p]) <= RecursionLimit
  /\ stack' = [stack EXCEPT ![p][Len(stack[p])].pc = "body"]
  /\ call' = [call EXCEPT ![p].misses = @ + 1]
  /\ UNCHANGED <<cache, computed, envVars>>

\* The body's frame would exceed the interpreter's limit: RecursionError
\* unwinds every open frame of fib (none catches it, none stores).
RaiseRecursionError(p) ==
  /\ AtPc(p, "lookup")
  /\ Top(p).n \notin DOMAIN cache[RunOf(p)]
  /\ Len(stack[p]) > RecursionLimit
  /\ stack' = [stack EXCEPT ![p] = <<>>]
  /\ call' = [call EXCEPT ![p] = FinishError(call[p], "RecursionError")]
  /\ UNCHANGED <<cache, computed, envVars>>

\* Faulty variants of the store: a cache that keeps the newest key only, and
\* a wrapper that never stores.
StoreResultEvicting(c, n, r) == (n :> r)
StoreResultDropped(c, n, r) == c

\* The wrapper stores the body's result under its key and returns it.
StoreResult(c, n, r) == (n :> r) @@ c

Store(p) ==
  /\ AtPc(p, "store")
  /\ cache' = [cache EXCEPT ![RunOf(p)] = StoreResult(@, Top(p).n, Top(p).r)]
  /\ Return(p, Top(p).r, [call[p] EXCEPT !.writes = @ + 1])
  /\ UNCHANGED envVars

\* ------------------------------------------------------------- fib's body
\* Faulty variant of the base case: index 2 returned as it is.
BaseCaseOffByOne(n) == n < 3

\* if n < 2: return n
BaseCase(n) == n < 2

\* Lines 9-11 up to the first recursive call.
Body(p) ==
  /\ AtPc(p, "body")
  /\ LET f == Top(p)
     IN IF BaseCase(f.n)
        THEN /\ stack' = [stack EXCEPT ![p][Len(stack[p])] = [f EXCEPT !.pc = "store", !.r = f.n]]
             /\ call' = call
        ELSE /\ stack' = [stack EXCEPT ![p] =
                  Append([stack[p] EXCEPT ![Len(stack[p])].pc = "wait1"], Frame(f.n - 1))]
             /\ call' = [call EXCEPT ![p].calls = @ + 1]
  /\ UNCHANGED <<cache, computed, envVars>>

\* Line 11, the second recursive call.
Call2(p) ==
  /\ AtPc(p, "call2")
  /\ stack' = [stack EXCEPT ![p] =
        Append([stack[p] EXCEPT ![Len(stack[p])].pc = "wait2"], Frame(Top(p).n - 2))]
  /\ call' = [call EXCEPT ![p].calls = @ + 1]
  /\ UNCHANGED <<cache, computed, envVars>>

\* ------------------------------------------------------------- fibfactory
\* The values of --env-id the commands are run with.
EnvIds == {"dev", "test"}
\* pulumi_program declares three resources: aws-provider, app-image and
\* app-runner-service.
NumResources == 3

NoOp ==
  [cmd |-> "none", env |-> "", inBefore |-> FALSE, selected |-> FALSE,
   done |-> FALSE, removeCalled |-> FALSE, removed |-> FALSE,
   raised |-> FALSE, error |-> "none"]

\* Where a command's calls into the automation API may fail.
CreateFails == {"none", "select", "config", "up"}
DestroyFails == {"none", "select", "destroy", "remove"}

\* create_env(env_id): create_or_select_stack, set_config twice, stack.up;
\* every exception is logged and raised again.
CreateEnv(e, fail) ==
  /\ fail \in CreateFails
  /\ workspace' = IF fail = "select" THEN workspace ELSE workspace \cup {e}
  /\ \E n \in resources[e]..NumResources :
       /\ fail \in {"select", "config"} => n = resources[e]
       /\ fail = "none" => n = NumResources
       /\ resources' = [resources EXCEPT ![e] = n]
  /\ op' = [NoOp EXCEPT !.cmd = "create", !.env = e,
                        !.inBefore = (e \in workspace),
                        !.selected = (fail # "select"),
                        !.done = (fail = "none"),
                        !.raised = (fail # "none"),
                        !.error = IF fail = "none" THEN "none" ELSE "Exception"]
  /\ UNCHANGED fibVars

\* auto.select_stack finds the stack: it raises StackNotFoundError when the
\* workspace has no stack of that name, and may fail otherwise too.
SelectOk(e, fail) == e \in workspace /\ fail # "select"
\* stack.destroy returned without raising.
DestroyOk(e, fail) == SelectOk(e, fail) /\ fail # "destroy"
\* Faulty variant: remove_stack called although stack.destroy raised.
RemoveCalledAnyway(e, fail) == SelectOk(e, fail)

\* Line 106 is reached: stack.workspace.remove_stack(stack_name) is called.
RemoveCalled(e, fail) == DestroyOk(e, fail)
\* The except clauses of destroy_env: both log and neither raises again.
DestroyRaises(e, fail) == FALSE

\* destroy_env(env_id): select_stack, stack.destroy, remove_stack, inside
\* one try.
DestroyEnv(e, fail) ==
  /\ fail \in DestroyFails
  /\ \E n \in 0..resources[e] :
       /\ ~SelectOk(e, fail) => n = resources[e]
       /\ DestroyOk(e, fail) => n = 0
       /\ resources' = [resources EXCEPT ![e] = n]
  /\ workspace' = IF RemoveCalled(e, fail) /\ fail # "remove"
                  THEN workspace \ {e} ELSE workspace
  /\ op' = [NoOp EXCEPT !.cmd = "destroy", !.env = e,
                        !.inBefore = (e \in workspace),
                        !.selected = SelectOk(e, fail),
                        !.done = DestroyOk(e, fail),
                        !.removeCalled = RemoveCalled(e, fail),
                        !.removed = (RemoveCalled(e, fail) /\ fail # "remove"),
                        !.raised = DestroyRaises(e, fail),
                        !.error = IF e \notin workspace THEN "StackNotFoundError"
                                  ELSE IF fail = "none" THEN "none" ELSE "Exception"]
  /\ UNCHANGED fibVars

EmptyCache == [k \in {} |-> 0]

FibInit ==
  /\ cache = [r \in Runs |-> EmptyCache]
  /\ stack = [p \in Procs |-> <<>>]
  /\ call = [p \in Procs |-> IdleCall]
  /\ computed = [r \in Runs |-> [k \in Inputs |-> 0]]

EnvIdle ==
  /\ workspace = {}
  /\ resources = [e \in EnvIds |-> 0]
  /\ op = NoOp

Init == FibInit /\ EnvIdle

\* The steps of fib and its wrapper.
EvalStep(p) ==
  \/ LookupHit(p)
  \/ LookupMiss(p)
  \/ RaiseRecursionError(p)
  \/ Body(p)
  \/ Call2(p)
  \/ Store(p)

FibStep(p) ==
  \/ \E seg \in Segments : Request(p, seg)
  \/ \E n \in Inputs : DirectCall(p, n)
  \/ EvalStep(p)

\* One thread of one run: the sequential service.
Next == \E p \in SeqProcs : FibStep(p)
Spec == Init /\ [][Next]_vars

\* Two request threads of one run sharing the cache (app.run is threaded),
\* serving the requests that reach get_fib.
NextConc ==
  \E p \in ConcProcs :
    \/ \E seg \in {s \in Segments : IntConverterMatches(s)} : Request(p, seg)
    \/ EvalStep(p)
SpecConc == Init /\ [][NextConc]_vars

\* Two runs of the service, each with its own cache.
NextRuns ==
  \E p \in RunProcs :
    \/ \E n \in 0..MaxN : DirectCall(p, n)
    \/ EvalStep(p)
SpecRuns == Init /\ [][NextRuns]_vars

\* The fibfactory command line, one command after another.
NextEnv ==
  \E e \in EnvIds :
    \/ \E fail \in CreateFails : CreateEnv(e, fail)
    \/ \E fail \in DestroyFails : DestroyEnv(e, fail)
SpecEnv == Init /\ [][NextEnv]_vars

\* ------------------------------------------------------------ properties
Done(p) == call[p].phase = "done"
\* p's finished top-level call ran the evaluator on a valid index.
Evaluated(p) == Done(p) /\ call[p].calls > 0 /\ call[p].arg >= 0
\* Every entry of run r's cache under a valid key holds Fib of its key.
CacheCorrect(r) == \A k \in DOMAIN cache[r] : k >= 0 => cache[r][k] = Fib(k)

\* C1: a call evaluate(n) with n in 0..ClaimN (the specification's 0..50)
\* returns Fib(n), whatever the cache held when the call started.
C1_ReturnsFib ==
  \A p \in Procs :
    (Evaluated(p) /\ call[p].arg <= ClaimN) =>
      (call[p].kind = "value" /\ call[p].val = Fib(call[p].arg))

\* evaluate(ClaimN) returned after recursing through more than one miss.
C1_Witness ==
  \E p \in SeqProcs :
    /\ Evaluated(p) /\ call[p].arg = ClaimN
    /\ call[p].kind = "value" /\ call[p].misses >= 2

\* C2: the evaluator called directly with a negative n fails with
\* InvalidArgument and attempts no computation.
C2_NegativeRejected ==
  \A p \in Procs :
    (Done(p) /\ call[p].via = "direct" /\ call[p].arg < 0) =>
      (call[p].kind = "InvalidArgument" /\ call[p].misses = 0 /\ call[p].writes = 0)

\* C3: every cached entry of a valid key k holds Fib(k), and the cache is
\* write-once: no step removes a key or changes the value under it.
C3_CacheWriteOnce ==
  /\ [](\A r \in Runs : CacheCorrect(r))
  /\ [][\A r \in Runs : \A k \in DOMAIN cache[r] :
          k \in DOMAIN cache'[r] /\ cache'[r][k] = cache[r][k]]_vars

\* A later call found the entry of a recursive index in place: the call
\* wrote nothing and returned the cached value.
C3_Witness ==
  \E p \in SeqProcs :
    /\ Evaluated(p) /\ call[p].arg >= 2 /\ call[p].writes = 0
    /\ call[p].kind = "value"
    /\ call[p].arg \in DOMAIN cache[RunOf(p)]
    /\ Cardinality(DOMAIN cache[RunOf(p)]) >= 4

\* C4: a call issued while another thread evaluates the same uncached n
\* returns Fib(n), as does every other call for that n, nothing crashes and
\* no cache entry differs from Fib of its key.
C4_ConcurrentSafe ==
  /\ \A p \in ConcProcs :
       (Evaluated(p) /\ call[p].joined) =>
         /\ call[p].kind = "value" /\ call[p].val = Fib(call[p].arg)
         /\ \A q \in ConcProcs :
              (Evaluated(q) /\ call[q].arg = call[p].arg) =>
                (call[q].kind = "value" /\ call[q].val = call[p].val)
  /\ \A r \in Runs : CacheCorrect(r)

\* C5: the route answers a negative n with status 400 without calling the
\* evaluator, and a non-negative n with status 200 and a payload holding n
\* and fib(n).
C5_RouteStatus ==
  \A p \in Procs :
    (Done(p) /\ call[p].via = "route") =>
      IF call[p].arg < 0
      THEN call[p].status = 400 /\ call[p].calls = 0
      ELSE /\ call[p].status = 200
           /\ call[p].payN = call[p].arg
           /\ call[p].payFib = Fib(call[p].arg)

\* C6: evaluate(n) called twice in a row returns the identical value both
\* times, and the second call is a cache hit: no miss, no store.
C6_SecondCallHits ==
  \A p \in Procs :
    (Evaluated(p) /\ call[p].prevKind # "none") =>
      /\ call[p].prevKind = "value" /\ call[p].kind = "value"
      /\ call[p].val = call[p].prevVal
      /\ call[p].misses = 0 /\ call[p].writes = 0

\* C7: two runs that evaluate the same n >= 0 after different histories get
\* the same result.
C7_SameInEveryRun ==
  \A p, q \in RunProcs :
    (Evaluated(p) /\ Evaluated(q) /\ call[p].arg = call[q].arg) =>
      (call[p].kind = call[q].kind /\ call[p].val = call[q].val)

\* C8: a call evaluate(n) with n >= 0 ends by returning an integer, from
\* every cache state; no valid input leads to an error.
C8_ValidInputReturns ==
  \A p \in Procs : Evaluated(p) => call[p].kind = "value"

\* C9: when evaluate(n) with n >= 2 returns, every index of 2..n is cached;
\* the cached keys from 2 on are downward closed in every state, and line 11
\* finishes at most once for each index.
C9_DownwardClosed ==
  /\ \A p \in SeqProcs :
       (Evaluated(p) /\ call[p].kind = "value" /\ call[p].arg >= 2) =>
         \A k \in 2..call[p].arg : k \in DOMAIN cache[RunOf(p)]
  /\ \A k \in DOMAIN cache[1] : k >= 2 => \A j \in 2..k : j \in DOMAIN cache[1]
  /\ \A k \in Inputs : computed[1][k] <= 1

\* evaluate(MaxN) returned and line 11 ran once for every index of 2..MaxN.
C9_Witness ==
  \E p \in SeqProcs :
    /\ Evaluated(p) /\ call[p].arg = MaxN /\ call[p].kind = "value"
    /\ \A k \in 2..MaxN : computed[1][k] = 1

\* C10: destroy_env calls remove_stack only after stack.destroy returned;
\* when select_stack or stack.destroy fails, remove_stack is not called, a
\* stack that was in the workspace stays there, and destroy_env returns
\* without raising.
C10_RemoveAfterDestroy ==
  op.cmd = "destroy" =>
    /\ op.removeCalled => (op.selected /\ op.done)
    /\ (~op.selected \/ ~op.done) =>
         /\ ~op.removeCalled
         /\ op.inBefore => op.env \in workspace
         /\ ~op.raised

\* stack.destroy failed on a deployed stack: it is still in the workspace.
C10_Witness ==
  /\ op.cmd = "destroy" /\ op.inBefore /\ op.selected /\ ~op.done
  /\ ~op.removeCalled /\ ~op.raised
  /\ op.env \in workspace /\ resources[op.env] > 0

=============================================================================
